---- MODULE Spec2Model ----
(***************************************************************************)
(* Cancellable store actions (src/src/actions.js).                         *)
(*                                                                         *)
(* The module holds one process-wide registry of cancelled action ids      *)
(* (actionCanceller), the wrapper makeCancellable puts around every        *)
(* action (actionWrapper) and the takeLatest decorator with its private    *)
(* previousCalls stack.  The host store and the bodies of the actions are  *)
(* the environment: a body is a straight-line program of commit calls,     *)
(* nested dispatch calls, suspensions (await) and failures.                *)
(*                                                                         *)
(* actionWrapper takes its identifier from the context object the host     *)
(* passes to the handler, and wrappedDispatch hands the host the arguments *)
(* only.  Whether a nested action meets its parent's context (and with it  *)
(* the parent's rootActionId) or a context of its own is the host's        *)
(* choice; both hosts are covered (hostSharesContext).                     *)
(*                                                                         *)
(* JavaScript runs one callback at a time and runs it to completion: an    *)
(* action of the model is one such callback, from the event that starts it *)
(* to the point where every body it entered has suspended or ended.        *)
(***************************************************************************)
EXTENDS Integers, Sequences, FiniteSets, TLC

VARIABLES
    cancelledActions,   \* actions.js:24  the Set inside actionCancellerFactory
    previousCalls,      \* actions.js:108 one stack per takeLatest(...) result
    nextId,             \* actions.js:7   ids handed out so far by uniqueId
    invs,               \* one record per call of a wrapped action
    commits,            \* commit calls that reached the host store, in order
    hostSharesContext,  \* does the host hand a nested action its parent's context object
    cancelCalls         \* history: every id ever passed to cancelAction

vars == <<cancelledActions, previousCalls, nextId, invs, commits,
          hostSharesContext, cancelCalls>>

----------------------------------------------------------------------------
(* Bounds *)

MaxInvocations == 3

----------------------------------------------------------------------------
(* Values *)

\* `context.rootActionId` of a context the wrapper has not seen yet (undefined)
NoId == 0

\* the actions decorated with takeLatest, each by a takeLatest(...) call of its
\* own: action1 as in the tests, and action3 in a store that decorates two
TakeLatestActions == {"action1", "action3"}

\* the store of the tests: action1 is decorated with takeLatest, action2 is not
RegisteredActions == {"action1", "action2"}

\* a store that registers a second takeLatest action, action3, as well
AllActions == RegisteredActions \cup TakeLatestActions

\* the two mutations of the test store
MutationTypes == {"setProp1", "setProp2"}

\* Steps of an action body.  A mutation type is a call context.commit(type, ..);
\* "dispatch" is an un-awaited context.dispatch('action2', ..);
\* "await" suspends the body on a timer or a request;
\* "fail" is a step that fails with one of Failures.
Programs ==
    { <<"setProp1", "await", "setProp2", "dispatch">>,
      <<"await", "fail">> }

\* How a step fails other than by cancellation: with a plain Error, thrown by
\* the body or by the host call it makes ("throw"), or with an error of the
\* body's own whose name field is 'ActionCancelledError' ("throwNamed").
Failures == {"throw", "throwNamed"}

\* bodies of the action a nested dispatch reaches (action2 of the tests, and an
\* asynchronous variant of it)
NestedPrograms == { <<"setProp2">>, <<"await", "setProp2">> }

Payloads == {"hello"}

\* what every body returns when it runs to its end
BodyValue == "done"

NoOutcome == [kind |-> "none", value |-> "", name |-> "", origin |-> ""]

Resolved(v) == [kind |-> "ok", value |-> v, name |-> "", origin |-> ""]

Rejected(n, o) == [kind |-> "err", value |-> "", name |-> n, origin |-> o]

\* new ActionCancelledError() thrown by wrappedCommit / wrappedDispatch
ActionCancelledError == Rejected("ActionCancelledError", "wrapper")

Range(s) == { s[k] : k \in 1..Len(s) }

----------------------------------------------------------------------------
(* The cancellation registry *)

\* a cancelAction that takes the id out again when it is called twice
cancelActionToggles(registry, actionId) ==
    IF actionId \in registry THEN registry \ {actionId} ELSE registry \cup {actionId}

cancelAction(registry, actionId) == registry \cup {actionId}

isActionCancelled(registry, actionId) == actionId \in registry

\* cancelledActions.clear() instead of delete(actionId)
cleanActionClearsAll(registry, actionId) == {}

cleanAction(registry, actionId) == registry \ {actionId}

----------------------------------------------------------------------------
(* The state a callback works on: the variables, and the call stack of     *)
(* wrapped actions whose synchronous code is running.                      *)

Now ==
    [ registry |-> cancelledActions,
      calls    |-> previousCalls,
      next     |-> nextId,
      invs     |-> invs,
      commits  |-> commits,
      called   |-> cancelCalls,
      stack    |-> <<>> ]

\* a cancelAction that also takes back what the cancelled action committed
ExportedCancelActionUndoes(st, actionId) ==
    [st EXCEPT !.registry = cancelAction(@, actionId),
               !.called = @ \cup {actionId},
               !.commits = SelectSeq(@, LAMBDA c :
                               st.invs[c.by].rootActionId # actionId)]

\* export function cancelAction (actionId)
ExportedCancelAction(st, actionId) ==
    [st EXCEPT !.registry = cancelAction(@, actionId),
               !.called = @ \cup {actionId}]

----------------------------------------------------------------------------
(* actionWrapper: the synchronous prefix *)

\* the rootActionId field of the context object the host passes to the handler:
\* the host builds the context of a dispatch from outside; for a nested dispatch
\* it either builds a new one or hands over the parent's
IncomingRootActionId(st, parent) ==
    IF parent # 0 /\ hostSharesContext THEN st.invs[parent].rootActionId ELSE NoId

isRootAction(incoming) == incoming = NoId

\* an id generator that repeats itself
uniqueIdRepeats(st) == 1

uniqueId(st) == st.next

RootActionId(st, incoming) == IF incoming # NoId THEN incoming ELSE uniqueId(st)

\* The record of a call of the wrapped action `action`, after the synchronous
\* prefix of actionWrapper has run.
NewInvocation(st, action, prog, payload, parent) ==
    LET incoming == IncomingRootActionId(st, parent) IN
    [ action       |-> action,
      prog         |-> prog,
      payload      |-> payload,
      parent       |-> parent,
      rootActionId |-> RootActionId(st, incoming),
      isRootAction |-> isRootAction(incoming),
      pc           |-> 1,
      status       |-> "running",
      body         |-> NoOutcome,
      result       |-> NoOutcome ]

----------------------------------------------------------------------------
(* takeLatest: drain previousCalls, cancelling every id, then push *)

\* takeLatest that pops previousCalls without cancelling what it pops
DrainRegistryForgets(registry, calls) == registry

RECURSIVE DrainRegistry(_, _)
DrainRegistry(registry, calls) ==
    IF Len(calls) > 0
    THEN DrainRegistry(cancelAction(registry, calls[Len(calls)]),
                       SubSeq(calls, 1, Len(calls) - 1))
    ELSE registry

RECURSIVE DrainCalls(_)
DrainCalls(calls) ==
    IF Len(calls) > 0 THEN DrainCalls(SubSeq(calls, 1, Len(calls) - 1)) ELSE calls

\* a push on a stack that was not drained
PushCallKeeps(calls, id) == Append(calls, id)

PushCall(calls, id) == Append(DrainCalls(calls), id)

\* a takeLatest that keeps one previousCalls for all the actions it decorates
takeLatestActionWrapperShared(st, action, id) ==
    [st EXCEPT !.registry = DrainRegistry(@, st.calls["action1"]),
               !.called = @ \cup Range(st.calls["action1"]),
               !.calls = [@ EXCEPT !["action1"] = PushCall(@, id)]]

\* a takeLatest that pushes the identifier before it drains previousCalls
takeLatestActionWrapperSelfCancels(st, action, id) ==
    [st EXCEPT !.registry = DrainRegistry(@, Append(st.calls[action], id)),
               !.called = @ \cup Range(Append(st.calls[action], id)),
               !.calls = [@ EXCEPT ![action] = PushCall(@, id)]]

\* takeLatestActionWrapper up to the call of the action it decorates
takeLatestActionWrapper(st, action, id) ==
    [st EXCEPT !.registry = DrainRegistry(@, st.calls[action]),
               !.called = @ \cup Range(st.calls[action]),
               !.calls = [@ EXCEPT ![action] = PushCall(@, id)]]

\* takeLatest without its catch
TakeLatestOutcomeRethrows(o) == o

\* try { return await action(..) } catch (e) { if (e.name !== ..) throw e }
TakeLatestOutcome(o) ==
    IF o.kind = "err" /\ o.name = "ActionCancelledError"
    THEN Resolved("undefined")
    ELSE o

\* what the function handed to actionWrapper settles with
InnerOutcome(action, o) ==
    IF action \in TakeLatestActions THEN TakeLatestOutcome(o) ELSE o

\* a wrapper that catches what the action throws
WrapperOutcomeSwallows(inner) ==
    IF inner.kind = "err" THEN Resolved("undefined") ELSE inner

\* await ret; ...; return ret
WrapperOutcome(inner) == inner

\* a clean-up that does not ask whether the invocation is the root
WrapperCleanupAlways(registry, inner, root, id) ==
    IF inner.kind = "ok" THEN cleanAction(registry, id) ELSE registry

\* await ret throws when ret rejects, so the clean-up is reached on success only
WrapperCleanup(registry, inner, root, id) ==
    IF inner.kind = "ok" /\ root THEN cleanAction(registry, id) ELSE registry

----------------------------------------------------------------------------
(* Running a body *)

\* The host calls the handler of `action`: actionWrapper runs up to the call of
\* the function it wraps and, for a takeLatest action, takeLatestActionWrapper
\* runs up to the call of the body.
actionWrapper(st, action, prog, payload, parent) ==
    LET new == NewInvocation(st, action, prog, payload, parent)
        st1 == [st EXCEPT !.invs = Append(@, new),
                          !.stack = Append(@, Len(st.invs) + 1),
                          !.next = IF new.isRootAction THEN @ + 1 ELSE @]
    IN  IF action \in TakeLatestActions
        THEN takeLatestActionWrapper(st1, action, new.rootActionId)
        ELSE st1

Pop(s) == SubSeq(s, 1, Len(s) - 1)

\* the body of invocation i ends (return, throw, or a rejected call)
Finish(st, i, outcome) ==
    [st EXCEPT !.invs[i].status = "bodyDone",
               !.invs[i].body = outcome,
               !.stack = Pop(@)]

\* commit(args) instead of commit(...args): the payload is lost
wrappedCommitLosesPayload(st, i, type) ==
    IF isActionCancelled(st.registry, st.invs[i].rootActionId)
    THEN Finish(st, i, ActionCancelledError)
    ELSE [st EXCEPT !.invs[i].pc = @ + 1,
                    !.commits = Append(@, [by |-> i, type |-> type,
                                           payload |-> "undefined"])]

\* context.commit(type, payload) in the body of invocation i
wrappedCommit(st, i, type) ==
    IF isActionCancelled(st.registry, st.invs[i].rootActionId)
    THEN Finish(st, i, ActionCancelledError)
    ELSE [st EXCEPT !.invs[i].pc = @ + 1,
                    !.commits = Append(@, [by |-> i, type |-> type,
                                           payload |-> st.invs[i].payload])]

\* context.dispatch('action2', payload), not awaited, in the body of invocation i
wrappedDispatch(st, i, prog) ==
    IF isActionCancelled(st.registry, st.invs[i].rootActionId)
    THEN Finish(st, i, ActionCancelledError)
    ELSE actionWrapper([st EXCEPT !.invs[i].pc = @ + 1],
                       "action2", prog, st.invs[i].payload, i)

\* the error a failing step throws
FailureOutcome(kind) ==
    IF kind = "throwNamed"
    THEN Rejected("ActionCancelledError", "body")
    ELSE Rejected("Error", "body")

\* one step of the body on top of the call stack; `nested` is the body the
\* next nested dispatch reaches and `failure` the way the next "fail" fails
BodyStep(st, nested, failure) ==
    LET i  == st.stack[Len(st.stack)]
        me == st.invs[i] IN
    IF me.pc > Len(me.prog)
    THEN Finish(st, i, Resolved(BodyValue))
    ELSE LET op == me.prog[me.pc] IN
         CASE op = "await" ->
                [st EXCEPT !.invs[i].status = "suspended",
                           !.invs[i].pc = @ + 1,
                           !.stack = Pop(@)]
           [] op \in MutationTypes -> wrappedCommit(st, i, op)
           [] op = "dispatch" -> wrappedDispatch(st, i, nested)
           [] OTHER -> Finish(st, i, FailureOutcome(failure))

\* run until every body on the call stack has suspended or ended
RECURSIVE Run(_, _, _)
Run(st, nested, failure) ==
    IF st.stack = <<>> THEN st ELSE Run(BodyStep(st, nested, failure), nested, failure)

Becomes(st) ==
    /\ cancelledActions' = st.registry
    /\ previousCalls' = st.calls
    /\ nextId' = st.next
    /\ invs' = st.invs
    /\ commits' = st.commits
    /\ cancelCalls' = st.called

RECURSIVE CountDispatch(_, _)
CountDispatch(prog, from) ==
    IF from > Len(prog) THEN 0
    ELSE (IF prog[from] = "dispatch" THEN 1 ELSE 0) + CountDispatch(prog, from + 1)

\* nested dispatches that suspended bodies may still issue
RECURSIVE Reserved(_)
Reserved(n) ==
    IF n = 0 THEN 0
    ELSE (IF invs[n].status = "suspended"
          THEN CountDispatch(invs[n].prog, invs[n].pc) ELSE 0) + Reserved(n - 1)

\* does the callback that runs prog from `from` reach a step `op` before it suspends
Reaches(prog, from, op) ==
    \E k \in from..Len(prog) :
        /\ prog[k] = op
        /\ \A j \in from..(k - 1) : prog[j] # "await"

\* the choices a callback does not use are fixed, so that each callback is one step
Choices(prog, from) ==
    { c \in [nested : NestedPrograms, failure : Failures] :
        /\ Reaches(prog, from, "dispatch") \/ c.nested = <<"setProp2">>
        /\ Reaches(prog, from, "fail") \/ c.failure = "throw" }

----------------------------------------------------------------------------
(* Actions *)

Init ==
    /\ cancelledActions = {}
    /\ previousCalls = [a \in TakeLatestActions |-> <<>>]
    /\ nextId = 1
    /\ invs = <<>>
    /\ commits = <<>>
    /\ hostSharesContext \in BOOLEAN
    /\ cancelCalls = {}

\* store.dispatch(action, payload) from outside any action: the handler runs
\* until its body suspends or ends
Dispatch(action, prog, payload, nested, failure) ==
    /\ [nested |-> nested, failure |-> failure] \in Choices(prog, 1)
    /\ Len(invs) + Reserved(Len(invs)) + 1 + CountDispatch(prog, 1) <= MaxInvocations
    /\ Becomes(Run(actionWrapper(Now, action, prog, payload, 0), nested, failure))
    /\ UNCHANGED hostSharesContext

\* the awaited timer or request of a suspended body settles and the body
\* goes on until it suspends again or ends
Resume(i, nested, failure) ==
    /\ invs[i].status = "suspended"
    /\ [nested |-> nested, failure |-> failure] \in Choices(invs[i].prog, invs[i].pc)
    /\ Becomes(Run([Now EXCEPT !.invs[i].status = "running", !.stack = <<i>>],
                   nested, failure))
    /\ UNCHANGED hostSharesContext

\* The promise continuations after the body: the catch of takeLatest, then
\* `await ret`, the clean-up and `return ret` of actionWrapper.
Complete(i) ==
    /\ invs[i].status = "bodyDone"
    /\ LET inner == InnerOutcome(invs[i].action, invs[i].body) IN
       /\ invs' = [invs EXCEPT ![i].status = "settled",
                               ![i].result = WrapperOutcome(inner)]
       /\ cancelledActions' = WrapperCleanup(cancelledActions, inner,
                                  invs[i].isRootAction, invs[i].rootActionId)
    /\ UNCHANGED <<previousCalls, nextId, commits, hostSharesContext, cancelCalls>>

\* the exported cancelAction(actionId), called from outside any action with an
\* id some invocation has shown to its caller
ExternalCancel(id) ==
    /\ Becomes(ExportedCancelAction(Now, id))
    /\ UNCHANGED hostSharesContext

Next ==
    \/ \E a \in RegisteredActions, p \in Programs, pl \in Payloads,
          n \in NestedPrograms, f \in Failures : Dispatch(a, p, pl, n, f)
    \/ \E i \in 1..Len(invs), n \in NestedPrograms, f \in Failures : Resume(i, n, f)
    \/ \E i \in 1..Len(invs) : Complete(i)
    \/ \E id \in 1..(nextId - 1) : ExternalCancel(id)

Spec == Init /\ [][Next]_vars

\* The store with two takeLatest actions, and no caller of the exported
\* cancelAction: every cancellation comes from takeLatest.
NextNoExternalCancel ==
    \/ \E a \in AllActions, p \in Programs, pl \in Payloads,
          n \in NestedPrograms, f \in Failures : Dispatch(a, p, pl, n, f)
    \/ \E i \in 1..Len(invs), n \in NestedPrograms, f \in Failures : Resume(i, n, f)
    \/ \E i \in 1..Len(invs) : Complete(i)

SpecNoExternalCancel == Init /\ [][NextNoExternalCancel]_vars

\* The awaited operation of every invocation settles at last, and the host
\* runs every promise continuation that is ready.
ResumeStep(i) ==
    /\ i \in 1..Len(invs)
    /\ \E n \in NestedPrograms, f \in Failures : Resume(i, n, f)

\* the guard of ResumeStep(i): the step itself always changes invs[i]
ResumeEnabled(i) ==
    /\ i \in 1..Len(invs)
    /\ invs[i].status = "suspended"
    /\ \E n \in NestedPrograms, f \in Failures :
          [nested |-> n, failure |-> f] \in Choices(invs[i].prog, invs[i].pc)

CompleteStep(i) == i \in 1..Len(invs) /\ Complete(i)

\* weak fairness of CompleteStep(i) and of ResumeStep(i), the latter with its
\* enabling condition written out
Fairness ==
    \A i \in 1..MaxInvocations :
        /\ WF_vars(CompleteStep(i))
        /\ ([]<>(~ResumeEnabled(i)) \/ []<><<ResumeStep(i)>>_vars)

SpecFair == Init /\ [][NextNoExternalCancel]_vars /\ Fairness

----------------------------------------------------------------------------
(* Vocabulary of the properties *)

Invocations == 1..Len(invs)

\* the invocation dispatched from outside any action, at the top of i's tree
RECURSIVE TreeRootIn(_, _)
TreeRootIn(iv, i) == IF iv[i].parent = 0 THEN i ELSE TreeRootIn(iv, iv[i].parent)

IsTakeLatest(iv, i) == iv[i].action \in TakeLatestActions

PlainRoot(iv, i) == iv[i].parent = 0 /\ iv[i].action \notin TakeLatestActions

\* is there an invocation of i's action dispatched (from outside) after i
Superseded(iv, i) ==
    \E j \in (i + 1)..Len(iv) : iv[j].parent = 0 /\ iv[j].action = iv[i].action

\* the commits the step adds to the host store
NewCommits == (Len(commits) + 1)..Len(commits')

\* the invocations the step starts
NewInvocations == (Len(invs) + 1)..Len(invs')

IsPrefix(s, t) == Len(s) <= Len(t) /\ SubSeq(t, 1, Len(s)) = s

\* the step runs the suspended body of i, whose next call is a commit or a dispatch
ResumesIntoCall(i) ==
    /\ invs[i].status = "suspended"
    /\ invs'[i].status # "suspended" \/ invs'[i].pc # invs[i].pc
    /\ invs[i].pc <= Len(invs[i].prog)
    /\ invs[i].prog[invs[i].pc] \in MutationTypes \cup {"dispatch"}

CommitsBy(i) == SelectSeq(commits, LAMBDA c : c.by = i)

\* the commit calls the body of i has made so far, as the body issued them
IssuedBy(i) ==
    LET ops == SelectSeq(SubSeq(invs[i].prog, 1, invs[i].pc - 1),
                         LAMBDA o : o \in MutationTypes)
    IN  [k \in 1..Len(ops) |->
            [by |-> i, type |-> ops[k], payload |-> invs[i].payload]]

----------------------------------------------------------------------------
(* Properties *)

\* C1: of the invocations I1..In of a takeLatest action, only the latest one
\* mutates the store: a commit that reaches the host store from the tree of an
\* invocation of a takeLatest action comes from the tree of the latest
\* invocation of that action.
C1_OnlyLatestMutates ==
    [][\A k \in NewCommits :
          LET r == TreeRootIn(invs', commits'[k].by) IN
          IsTakeLatest(invs', r) => ~Superseded(invs', r)]_vars

C3_CancelledTreeIsSilent ==
    [][/\ \A k \in NewCommits :
            invs'[TreeRootIn(invs', commits'[k].by)].rootActionId \notin cancelCalls
       /\ \A j \in NewInvocations :
            invs'[j].parent # 0
            => invs'[TreeRootIn(invs', j)].rootActionId \notin cancelCalls]_vars

\* C4: a root invocation of an action that is not decorated with takeLatest,
\* cancelled while suspended, fails at the next commit or dispatch of its body;
\* its caller sees a rejection named ActionCancelledError, and no commit of the
\* invocation reaches the host after the cancellation.
C4_DirectCancelRejects ==
    /\ [](\A i \in Invocations :
            (PlainRoot(invs, i) /\ invs[i].status = "settled"
                                /\ invs[i].body = ActionCancelledError)
            => (invs[i].result.kind = "err"
                /\ invs[i].result.name = "ActionCancelledError"))
    /\ [][/\ \A i \in Invocations :
               (PlainRoot(invs, i) /\ ResumesIntoCall(i)
                    /\ invs[i].rootActionId \in cancelCalls)
               => invs'[i].body = ActionCancelledError
          /\ \A k \in NewCommits :
               PlainRoot(invs', commits'[k].by)
               => invs'[commits'[k].by].rootActionId \notin cancelCalls]_vars

\* a cancelled root invocation rejected with ActionCancelledError; the commit
\* it made before it suspended is in the store, the one after is not
C4_Witness ==
    \E i \in Invocations :
        /\ PlainRoot(invs, i)
        /\ invs[i].status = "settled"
        /\ invs[i].result = ActionCancelledError
        /\ Len(CommitsBy(i)) = 1
        /\ invs[i].prog[invs[i].pc] = "setProp2"

\* C5: the caller of a superseded invocation of a takeLatest action sees the
\* promise resolve with undefined: the ActionCancelledError of the rejected
\* commit or dispatch is caught in takeLatest and never reaches the caller.
C5_SupersededResolves ==
    \A i \in Invocations :
        (IsTakeLatest(invs, i) /\ invs[i].status = "settled")
        => /\ invs[i].body = ActionCancelledError
                => invs[i].result = Resolved("undefined")
           /\ invs[i].result # ActionCancelledError

C5_Witness ==
    \E i \in Invocations :
        /\ IsTakeLatest(invs, i) /\ Superseded(invs, i)
        /\ invs[i].status = "settled"
        /\ invs[i].body = ActionCancelledError
        /\ invs[i].result = Resolved("undefined")

\* C6: a failure of a body that is not a cancellation reaches the caller
\* unchanged, through actionWrapper and through takeLatest.
C6_OtherFailuresPropagate ==
    \A i \in Invocations :
        (invs[i].status = "settled" /\ invs[i].body.kind = "err"
                                    /\ invs[i].body.origin # "wrapper")
        => invs[i].result = invs[i].body

\* C7: when a root invocation completes, with a result or with an error, its
\* identifier is not in the registry.
C7_RootCleanedOnCompletion ==
    [][\A i \in Invocations :
          (invs[i].status = "bodyDone" /\ invs'[i].status = "settled"
                                       /\ invs[i].isRootAction)
          => invs[i].rootActionId \notin cancelledActions']_vars

\* C8: for an invocation whose identifier was never cancelled, the commits
\* that reach the host store are the commits its body issued, with their types
\* and payloads and in their order, no call of it is rejected, and its caller
\* gets what the action handed to makeCancellable settles with.
C8_UncancelledIsTransparent ==
    \A i \in Invocations :
        invs[i].rootActionId \notin cancelCalls
        => /\ CommitsBy(i) = IssuedBy(i)
           /\ invs[i].body # ActionCancelledError
           /\ invs[i].status = "settled"
                => invs[i].result = IF IsTakeLatest(invs, i)
                                    THEN TakeLatestOutcome(invs[i].body)
                                    ELSE invs[i].body

\* the action of the tests ran to its end unhindered: both commits, the nested
\* dispatch and its commit, and the body's own result
C8_Witness ==
    \E i \in Invocations, j \in Invocations :
        /\ invs[j].parent = i
        /\ invs[i].rootActionId \notin cancelCalls
        /\ invs[j].rootActionId \notin cancelCalls
        /\ invs[i].status = "settled" /\ invs[i].result = Resolved(BodyValue)
        /\ Len(CommitsBy(i)) = 2
        /\ Len(CommitsBy(j)) = 1

\* C9: no step takes a commit out of the store's history or changes one, and
\* a call of cancelAction changes the registry only.
C9_CancelNeverUndoes ==
    [][/\ IsPrefix(commits, commits')
       /\ (Len(invs') = Len(invs) /\ ~(cancelledActions' \subseteq cancelledActions))
          => UNCHANGED <<invs, commits, previousCalls, nextId>>]_vars

\* an invocation was cancelled after it had committed: the commit is still there
C9_Witness ==
    \E k \in 1..Len(commits) :
        invs[commits[k].by].rootActionId \in cancelledActions

\* C10: invocations of different trees run under different identifiers, and a
\* call of an invocation is rejected only if cancelAction was called with the
\* identifier of its own tree.
C10_DistinctRootIds ==
    \A i \in Invocations :
        /\ \A j \in Invocations :
              TreeRootIn(invs, i) # TreeRootIn(invs, j)
              => invs[i].rootActionId # invs[j].rootActionId
        /\ invs[i].body = ActionCancelledError
              => invs[i].rootActionId \in cancelCalls

\* one invocation was cancelled and rejected while another one, started before
\* the rejection, ran to its end
C10_Witness ==
    \E i \in Invocations, j \in Invocations :
        /\ TreeRootIn(invs, i) # TreeRootIn(invs, j)
        /\ invs[i].body = ActionCancelledError
        /\ invs[j].status = "settled"
        /\ invs[j].result = Resolved(BodyValue)
        /\ invs[j].rootActionId \notin cancelCalls

\* no invocation that has not settled runs under id
NoPending(iv, id) ==
    \A k \in 1..Len(iv) : iv[k].rootActionId = id => iv[k].status = "settled"

\* the step rejects a commit or a dispatch of invocation i
RejectedNow(i) ==
    /\ invs'[i].body = ActionCancelledError
    /\ i \in Invocations => invs[i].body # ActionCancelledError

\* C11: cancelAction is idempotent: a second call with the same id leaves the
\* registry as the first one left it.  A call with an id under which no pending
\* invocation runs rejects nothing, now or later: no invocation ever runs under
\* such an id again, and a call is rejected only for a suspended invocation
\* whose own identifier is in the registry.
C11_CancelIdempotentHarmless ==
    /\ [](\A id \in 1..(nextId - 1) :
            cancelAction(cancelAction(cancelledActions, id), id)
                = cancelAction(cancelledActions, id))
    /\ [][/\ \A id \in cancelledActions' :
               NoPending(invs, id) => NoPending(invs', id)
          /\ \A i \in 1..Len(invs') :
               RejectedNow(i)
               => /\ i \in Invocations
                  /\ invs[i].status = "suspended"
                  /\ invs[i].rootActionId \in cancelledActions]_vars

\* cancelAction was called with the id of a root invocation that had completed
\* (its clean-up had run); an invocation dispatched later committed and ran to
\* its end
C11_Witness ==
    \E i \in Invocations, j \in Invocations :
        /\ i < j
        /\ invs[i].isRootAction /\ invs[i].status = "settled"
        /\ invs[i].result.kind = "ok"
        /\ NoPending(invs, invs[i].rootActionId)
        /\ invs[i].rootActionId \in cancelledActions
        /\ invs[j].status = "settled" /\ invs[j].result = Resolved(BodyValue)
        /\ Len(CommitsBy(j)) = 2

\* the latest invocation, dispatched from outside, of the takeLatest action a
LatestOf(iv, a) ==
    CHOOSE i \in 1..Len(iv) :
        /\ iv[i].action = a /\ iv[i].parent = 0
        /\ \A j \in (i + 1)..Len(iv) : ~(iv[j].action = a /\ iv[j].parent = 0)

HasInvocation(iv, a) == \E i \in 1..Len(iv) : iv[i].action = a /\ iv[i].parent = 0

\* C12: once an invocation of a takeLatest action has run its synchronous
\* prefix, previousCalls of that action holds one identifier, the one of the
\* most recent invocation, and every identifier the prefix found there is in
\* the registry.
C12_OnePendingCall ==
    /\ [](\A a \in TakeLatestActions :
            previousCalls[a] = IF HasInvocation(invs, a)
                               THEN <<invs[LatestOf(invs, a)].rootActionId>>
                               ELSE <<>>)
    /\ [][\A a \in TakeLatestActions :
            previousCalls'[a] # previousCalls[a]
            => Range(previousCalls[a]) \subseteq cancelledActions']_vars

\* a second invocation replaced the first one's identifier and cancelled it
C12_Witness ==
    \E a \in TakeLatestActions, i \in Invocations :
        /\ invs[i].action = a /\ invs[i].parent = 0
        /\ Superseded(invs, i)
        /\ invs[i].rootActionId \in cancelledActions
        /\ Len(previousCalls[a]) = 1
        /\ previousCalls[a][1] # invs[i].rootActionId

\* the step is the completion of invocation i
Completes(i) == invs[i].status = "bodyDone" /\ invs'[i].status = "settled"

\* C13: an identifier is generated per root invocation and not per nested
\* dispatch: an action reached by a nested dispatch runs under the identifier
\* of the invocation that dispatched it, and is not a root.
C13_NestedRunsUnderRootId ==
    \A i \in Invocations :
        invs[i].parent # 0
        => /\ invs[i].rootActionId = invs[invs[i].parent].rootActionId
           /\ ~invs[i].isRootAction

\* C14: the completion of an invocation that is not the root leaves the
\* registry as it is, and the completion of a nested invocation does not take
\* the identifier of its root out of the registry.
C14_NestedCompletionKeepsRegistry ==
    [][\A i \in Invocations :
          Completes(i)
          => /\ ~invs[i].isRootAction => cancelledActions' = cancelledActions
             /\ invs[i].parent # 0
                => LET id == invs[TreeRootIn(invs, i)].rootActionId IN
                   id \in cancelledActions => id \in cancelledActions']_vars

\* a nested invocation that is not a root has completed with a result while its
\* root, cancelled, had not completed: the root's identifier is still there
C14_Witness ==
    \E i \in Invocations :
        /\ invs[i].parent # 0 /\ ~invs[i].isRootAction
        /\ invs[i].status = "settled" /\ invs[i].result.kind = "ok"
        /\ invs[invs[i].parent].status # "settled"
        /\ invs[i].rootActionId \in cancelledActions

\* C15: previousCalls is private to each takeLatest(...) result: the dispatch
\* of a takeLatest action leaves previousCalls of every other takeLatest action
\* as it is and adds no identifier of an invocation of another action to the
\* registry; with no other caller of cancelAction, an invocation of a
\* takeLatest action is cancelled, and a call of its body rejected, only after
\* a newer invocation of the same action.
C15_PendingCallsArePrivate ==
    /\ [](\A i \in Invocations :
            (IsTakeLatest(invs, i) /\ invs[i].parent = 0)
            => /\ invs[i].rootActionId \in cancelledActions => Superseded(invs, i)
               /\ invs[i].body = ActionCancelledError => Superseded(invs, i))
    /\ [][\A j \in NewInvocations :
            (invs'[j].parent = 0 /\ IsTakeLatest(invs', j))
            => \A b \in TakeLatestActions \ {invs'[j].action} :
                  previousCalls'[b] = previousCalls[b]]_vars

\* an invocation of one takeLatest action ran to its end, with its commits,
\* and its nested dispatch, after an invocation of the other was dispatched
\* while it was suspended
C15_Witness ==
    \E i \in Invocations, j \in Invocations :
        /\ i < j
        /\ invs[i].parent = 0 /\ invs[j].parent = 0
        /\ IsTakeLatest(invs, i) /\ IsTakeLatest(invs, j)
        /\ invs[i].action # invs[j].action
        /\ invs[i].status = "settled" /\ invs[i].result = Resolved(BodyValue)
        /\ Len(CommitsBy(i)) = 2
        /\ \E n \in Invocations : n > j /\ invs[n].parent = i

\* C16: an identifier in the registry stays there until the completion of the
\* root invocation that owns it: a step that takes an identifier out of the
\* registry is the completion of the root invocation running under it.
C16_RegistryMonotonicUntilCleanup ==
    [][\A id \in cancelledActions \ cancelledActions' :
          \E i \in Invocations :
              /\ Completes(i)
              /\ invs[i].isRootAction
              /\ invs[i].rootActionId = id]_vars

\* the completion of a superseded invocation took its identifier out of the
\* registry and left another identifier there
C16_Witness ==
    \E i \in Invocations :
        /\ IsTakeLatest(invs, i) /\ invs[i].isRootAction
        /\ invs[i].body = ActionCancelledError
        /\ invs[i].status = "settled"
        /\ invs[i].rootActionId \notin cancelledActions
        /\ cancelledActions # {}

\* C17: with no caller of the exported cancelAction, every identifier in the
\* registry is the identifier of a root invocation that has not completed.
C17_RegistryHoldsPendingRootsOnly ==
    \A id \in cancelledActions :
        \E i \in Invocations :
            /\ invs[i].isRootAction
            /\ invs[i].rootActionId = id
            /\ invs[i].status # "settled"

\* C18: with no caller of the exported cancelAction, the latest invocation of
\* a takeLatest action is not in the registry, none of its calls of commit or
\* dispatch is rejected, and every commit its body issued is in the host store.
C18_LatestNeverSuppressed ==
    \A i \in Invocations :
        (IsTakeLatest(invs, i) /\ invs[i].parent = 0 /\ ~Superseded(invs, i))
        => /\ invs[i].rootActionId \notin cancelledActions
           /\ invs[i].body # ActionCancelledError
           /\ CommitsBy(i) = IssuedBy(i)

\* the latest invocation ran to its end with both commits while its
\* predecessor, cancelled by its dispatch, is still suspended
C18_Witness ==
    \E i \in Invocations, j \in Invocations :
        /\ i < j
        /\ invs[i].action = invs[j].action
        /\ IsTakeLatest(invs, j) /\ invs[j].parent = 0 /\ ~Superseded(invs, j)
        /\ invs[i].status = "suspended"
        /\ invs[i].rootActionId \in cancelledActions
        /\ invs[j].status = "settled" /\ invs[j].result = Resolved(BodyValue)
        /\ Len(CommitsBy(j)) = 2

\* C19: when every awaited operation settles, every invocation of a takeLatest
\* action settles at last, and the identifier of an invocation superseded while
\* it was pending leaves the registry at last.
C19_SupersededEventuallyCleaned ==
    \A i \in 1..MaxInvocations :
        /\ (i \in Invocations /\ IsTakeLatest(invs, i))
              ~> (i \in Invocations /\ invs[i].status = "settled")
        /\ (/\ i \in Invocations
            /\ IsTakeLatest(invs, i) /\ Superseded(invs, i)
            /\ invs[i].status # "settled"
            /\ invs[i].rootActionId \in cancelledActions)
              ~> (i \in Invocations /\ invs[i].rootActionId \notin cancelledActions)

====
